---- MODULE Spec2Model ----
(***************************************************************************)
(* Model of CoupangPartnersCrawler (src/crawler.py): a requests.Session    *)
(* subclass that logs in through three requests, keeps the AFATK cookie    *)
(* value as its token, and issues two token-carrying JSON API calls.       *)
(* The remote server is the environment: every response (status, AFATK     *)
(* Set-Cookie effect, body) is chosen nondeterministically.                *)
(***************************************************************************)
EXTENDS Integers, Sequences, FiniteSets, TLC

\* ---------------------------------------------------------------- bounds
NumTokens == 2
MaxProducts == 37
NumKeywords == 1

\* ------------------------------------------------------ program constants
PageSize == 36

LOGIN_URL == "https://login.coupang.com/login/login.pang"
LOGIN_PROCESS_URL == "https://login.coupang.com/login/loginProcess.pang"
POSTLOGIN_URL == "https://partners.coupang.com/api/v1/postlogin"
SEARCH_URL == "https://partners.coupang.com/api/v1/search"
BANNER_URL == "https://partners.coupang.com/api/v1/banner/iframe/url"

DefaultUserAgent == "Mozilla/5.0 (Linux; Android 13; Redmi Note 10 Pro) AppleWebKit/537.36 (KHTML, like Gecko) Chrome/101.0.0.0 Mobile Safari/537.36"
AcceptLanguage == "ko,ko-KR;q=0.9,en;q=0.8,en-US;q=0.7"
FormContentType == "application/x-www-form-urlencoded; charset=UTF-8"
JsonContentType == "application/json;charset=UTF-8"

\* Python's None
Null == "None"

\* ------------------------------------------------------------ environment
Clients == {"A", "B"}
\* the instance of the single-client program (the __main__ block creates one)
Solo == {"A"}

TokenNames == <<"abc123", "def456", "ghi789", "jkl012">>
Tokens == {TokenNames[i] : i \in 1..NumTokens}

KeywordNames == <<"shoes", "hats", "bags">>
Keywords == {KeywordNames[i] : i \in 1..NumKeywords}

\* user_agent constructor argument: omitted (None), empty, or given
UserAgentArgs == {Null, "TestAgent/1.0"}

\* final statuses a response can carry (2xx, 3xx, 4xx, 5xx)
Statuses == {200, 299, 304, 400, 404, 599}

\* what a response does to the AFATK cookie: nothing, expire it, or set it
SetCookieEffects == {"keep", "expire"} \cup Tokens

NoBody == [kind |-> "none", products |-> <<>>, shortUrl |-> Null]

ProductList(n) == [i \in 1..n |-> i]
ProductCounts == {0, PageSize, MaxProducts}
ShortUrls == {"https://link.coupang.com/a/xyz"}

\* JSON bodies: not JSON at all, JSON without "data", "data" without the
\* expected key, data.products, data.shortUrl
MalformedBodies ==
    {[kind |-> k, products |-> <<>>, shortUrl |-> Null] : k \in {"notjson", "nodata", "empty"}}
ProductBodies ==
    {[kind |-> "products", products |-> ProductList(n), shortUrl |-> Null] : n \in ProductCounts}
LinkBodies ==
    {[kind |-> "shortUrl", products |-> <<>>, shortUrl |-> u] : u \in ShortUrls}

TransportFailure == [delivered |-> FALSE, status |-> 0, setcookie |-> "keep", body |-> NoBody]

\* responses whose body is never read carry none
Responses(bodies) ==
    {TransportFailure}
    \cup [delivered : {TRUE}, status : {s \in Statuses : s >= 400}, setcookie : SetCookieEffects, body : {NoBody}]
    \cup [delivered : {TRUE}, status : {s \in Statuses : s < 400}, setcookie : SetCookieEffects, body : bodies]

PageResponses == Responses({NoBody})
SearchResponses == Responses(MalformedBodies \cup ProductBodies)
LinkResponses == Responses(MalformedBodies \cup LinkBodies)

\* the responses of the two-instance specification: the server answers, fails
\* or is unreachable, and sets the first token or no cookie
PairResponses(bodies) ==
    {r \in Responses(bodies) : r.status \in {0, 200, 404} /\ r.setcookie \in {"keep", TokenNames[1]}}

\* ------------------------------------------------------------------ state
VARIABLES
    alive,        \* alive[c]: the instance has been constructed
    user_agent,   \* self.user_agent
    token,        \* self.token
    cookies,      \* self.cookies, restricted to its AFATK entry (Null = absent)
    handlers,     \* handlers attached to the logger named "CoupangPartnersCrawler"
    issued,       \* value read by the last login() that returned True, until the next login() call
    call,         \* the operation running or last run: requests issued, records logged, outcome
    hdrcase       \* a header-merge case: custom headers given, headers sent

vars == <<alive, user_agent, token, cookies, handlers, issued, call, hdrcase>>

\* headers=None and headers={} are both falsy: one value stands for both
NoHeaders == << >>

NoResult == [kind |-> "none", value |-> Null, exc |-> Null]
Return(v) == [kind |-> "return", value |-> v, exc |-> Null]
Raise(e) == [kind |-> "raise", value |-> Null, exc |-> e]

NoCall == [client |-> Null, op |-> "none", pc |-> "done", reqs |-> <<>>, errors |-> 0,
           result |-> NoResult, before |-> Null, grant |-> "none", body |-> NoBody]

NoCase == [user_agent |-> DefaultUserAgent, custom |-> NoHeaders, sent |-> NoHeaders, pc |-> "off"]

Idle == call.pc = "done"

\* --------------------------------------------------------------- helpers

\* user_agent or "<default>"
UserAgentOf(arg) == IF arg = Null \/ arg = "" THEN DefaultUserAgent ELSE arg

DefaultHeaders(ua) == [n \in {"User-Agent", "accept-language"} |->
                          IF n = "User-Agent" THEN ua ELSE AcceptLanguage]

MergeDicts(d, h) == [n \in (DOMAIN d) \cup (DOMAIN h) |-> IF n \in DOMAIN h THEN h[n] ELSE d[n]]

\* a mutant: defaults win over the custom headers
get_headers_defaults_win(ua, headers) ==
    MergeDicts(headers, DefaultHeaders(ua))

\* __get_headers: {**default_headers, **(headers or {})}
get_headers(ua, headers) ==
    MergeDicts(DefaultHeaders(ua), headers)

\* the headers= argument of __get/__post: headers or self.__get_headers()
RequestHeaders(ua, headers) ==
    IF DOMAIN headers = {} THEN get_headers(ua, NoHeaders) ELSE headers

\* __get_token: self.cookies.get('AFATK')
get_token(c) == cookies[c]

\* a mutant: only server errors raise
raise_for_status_server_only(status) == status >= 500 /\ status < 600

\* Response.raise_for_status: HTTPError for 4xx and 5xx
raise_for_status(status) == status >= 400 /\ status < 600

\* the try block of __get/__post raises a RequestException
Raises(r) == ~r.delivered \/ raise_for_status(r.status)

ExceptionOf(r) == IF ~r.delivered THEN "ConnectionError" ELSE "HTTPError"

\* Session.send: allow_redirects=None is falsy, the default is True
FollowsRedirects(allow) == allow \in {"default", "True"}

\* the session stores the cookies of every response it receives
Receive(jar, r) ==
    IF ~r.delivered \/ r.setcookie = "keep" THEN jar
    ELSE IF r.setcookie = "expire" THEN Null
    ELSE r.setcookie

\* what the server did to AFATK during this call, response by response
Grant(g, r) ==
    IF ~r.delivered \/ r.setcookie = "keep" THEN g
    ELSE IF r.setcookie = "expire" THEN (IF g = "none" THEN "none" ELSE "revoked")
    ELSE "set"

Request(method, url, headers, data, allow, r) ==
    [method |-> method, url |-> url, headers |-> headers, data |-> data,
     follow |-> FollowsRedirects(allow), delivered |-> r.delivered, status |-> r.status]

\* logger.error: one record through every handler of the shared logger
ErrorsLogged(r) == IF Raises(r) THEN handlers ELSE 0

\* ------------------------------------------------------------ operations

Init ==
    /\ alive = [c \in Clients |-> FALSE]
    /\ user_agent = [c \in Clients |-> DefaultUserAgent]
    /\ token = [c \in Clients |-> Null]
    /\ cookies = [c \in Clients |-> Null]
    /\ handlers = 0
    /\ issued = [c \in Clients |-> Null]
    /\ call = NoCall
    /\ hdrcase = NoCase

\* __init__
Construct(c, ua) ==
    /\ Idle
    /\ ~alive[c]
    /\ alive' = [alive EXCEPT ![c] = TRUE]
    /\ user_agent' = [user_agent EXCEPT ![c] = UserAgentOf(ua)]
    /\ token' = [token EXCEPT ![c] = Null]
    /\ cookies' = [cookies EXCEPT ![c] = Null]
    /\ handlers' = handlers + 1
    /\ UNCHANGED <<issued, call, hdrcase>>

\* a request of a header-merge case, as login, search_keyword and get_link
\* build it: the custom headers go through __get_headers, then into __post
PostWithHeaders ==
    /\ hdrcase.pc = "ready"
    /\ hdrcase' = [hdrcase EXCEPT
            !.sent = RequestHeaders(hdrcase.user_agent, get_headers(hdrcase.user_agent, hdrcase.custom)),
            !.pc = "sent"]
    /\ UNCHANGED <<alive, user_agent, token, cookies, handlers, issued, call>>

\* a request without custom headers, as login builds its two GETs
GetWithoutHeaders ==
    /\ hdrcase.pc = "ready"
    /\ DOMAIN hdrcase.custom = {}
    /\ hdrcase' = [hdrcase EXCEPT
            !.sent = RequestHeaders(hdrcase.user_agent, NoHeaders),
            !.pc = "plain"]
    /\ UNCHANGED <<alive, user_agent, token, cookies, handlers, issued, call>>

\* a mutant: login() resets the token before it starts
login_get_page_resetting(c, r) ==
    /\ Idle
    /\ alive[c]
    /\ cookies' = [cookies EXCEPT ![c] = Receive(cookies[c], r)]
    /\ token' = [token EXCEPT ![c] = Null]
    /\ issued' = [issued EXCEPT ![c] = Null]
    /\ call' = [client |-> c, op |-> "login",
                pc |-> IF Raises(r) THEN "done" ELSE "login_submit",
                reqs |-> <<Request("GET", LOGIN_URL, RequestHeaders(user_agent[c], NoHeaders), Null, "default", r)>>,
                errors |-> ErrorsLogged(r),
                result |-> IF Raises(r) THEN Raise(ExceptionOf(r)) ELSE NoResult,
                before |-> token[c], grant |-> Grant("none", r), body |-> r.body]
    /\ UNCHANGED <<alive, user_agent, handlers, hdrcase>>

\* login, line 120: self.__get(LOGIN_URL)
login_get_page(c, r) ==
    /\ Idle
    /\ alive[c]
    /\ cookies' = [cookies EXCEPT ![c] = Receive(cookies[c], r)]
    /\ issued' = [issued EXCEPT ![c] = Null]
    /\ call' = [client |-> c, op |-> "login",
                pc |-> IF Raises(r) THEN "done" ELSE "login_submit",
                reqs |-> <<Request("GET", LOGIN_URL, RequestHeaders(user_agent[c], NoHeaders), Null, "default", r)>>,
                errors |-> ErrorsLogged(r),
                result |-> IF Raises(r) THEN Raise(ExceptionOf(r)) ELSE NoResult,
                before |-> token[c], grant |-> Grant("none", r), body |-> r.body]
    /\ UNCHANGED <<alive, user_agent, token, handlers, hdrcase>>

\* urllib.parse.urlencode({"email": self.username, "password": self.password})
LoginForm(c) == <<"email", c, "password", c>>

\* a mutant: the failure of the POST is swallowed and login() goes on
login_submit_unchecked(r) ==
    /\ call.pc = "login_submit"
    /\ LET c == call.client IN
        /\ cookies' = [cookies EXCEPT ![c] = Receive(cookies[c], r)]
        /\ call' = [call EXCEPT
                !.pc = "login_confirm",
                !.reqs = Append(@, Request("POST", LOGIN_PROCESS_URL,
                            RequestHeaders(user_agent[c], get_headers(user_agent[c], [n \in {"Content-Type"} |-> FormContentType])),
                            LoginForm(c), "True", r)),
                !.errors = @ + ErrorsLogged(r),
                !.grant = Grant(@, r)]
    /\ UNCHANGED <<alive, user_agent, token, handlers, issued, hdrcase>>

\* login, lines 121-123: self.__post(LOGIN_PROCESS_URL, ..., allow_redirects=True)
login_submit(r) ==
    /\ call.pc = "login_submit"
    /\ LET c == call.client IN
        /\ cookies' = [cookies EXCEPT ![c] = Receive(cookies[c], r)]
        /\ call' = [call EXCEPT
                !.pc = IF Raises(r) THEN "done" ELSE "login_confirm",
                !.reqs = Append(@, Request("POST", LOGIN_PROCESS_URL,
                            RequestHeaders(user_agent[c], get_headers(user_agent[c], [n \in {"Content-Type"} |-> FormContentType])),
                            LoginForm(c), "True", r)),
                !.errors = @ + ErrorsLogged(r),
                !.result = IF Raises(r) THEN Raise(ExceptionOf(r)) ELSE @,
                !.grant = Grant(@, r)]
    /\ UNCHANGED <<alive, user_agent, token, handlers, issued, hdrcase>>

\* login, line 124: self.__get(POSTLOGIN_URL)
login_confirm(r) ==
    /\ call.pc = "login_confirm"
    /\ LET c == call.client IN
        /\ cookies' = [cookies EXCEPT ![c] = Receive(cookies[c], r)]
        /\ call' = [call EXCEPT
                !.pc = IF Raises(r) THEN "done" ELSE "login_token",
                !.reqs = Append(@, Request("GET", POSTLOGIN_URL, RequestHeaders(user_agent[c], NoHeaders), Null, "default", r)),
                !.errors = @ + ErrorsLogged(r),
                !.result = IF Raises(r) THEN Raise(ExceptionOf(r)) ELSE @,
                !.grant = Grant(@, r)]
    /\ UNCHANGED <<alive, user_agent, token, handlers, issued, hdrcase>>

\* login, lines 125-128: self.token = self.__get_token(); return self.token is not None
login_read_token ==
    /\ call.pc = "login_token"
    /\ LET c == call.client IN
        /\ token' = [token EXCEPT ![c] = get_token(c)]
        /\ issued' = [issued EXCEPT ![c] = get_token(c)]
        /\ call' = [call EXCEPT !.pc = "done", !.result = Return(get_token(c) # Null)]
    /\ UNCHANGED <<alive, user_agent, cookies, handlers, hdrcase>>

\* a mutant: the header is taken from the cookie jar on every call
XTokenFromJar(c) == cookies[c]

\* "X-Token": self.token
XToken(c) == token[c]

\* json.dumps({"filter": keyword, "page": {"pageNumber": 0, "size": 36}})
SearchData(keyword) == [filter |-> keyword, pageNumber |-> 0, size |-> PageSize]

\* a mutant: a missing key yields an empty default instead of raising
ParseFieldLenient(body, field) ==
    IF body.kind = field THEN [ok |-> TRUE, value |-> body[field], exc |-> Null]
    ELSE [ok |-> TRUE, value |-> <<>>, exc |-> Null]

\* response.json()['data'][field]
ParseField(body, field) ==
    IF body.kind \in {"notjson", "none"} THEN [ok |-> FALSE, value |-> Null, exc |-> "JSONDecodeError"]
    ELSE IF body.kind = field THEN [ok |-> TRUE, value |-> body[field], exc |-> Null]
    ELSE [ok |-> FALSE, value |-> Null, exc |-> "KeyError"]

\* a mutant: the list is cut to the requested page size
SearchResultTruncated(body) ==
    LET parsed == ParseField(body, "products") IN
    IF parsed.ok /\ Len(parsed.value) > PageSize
    THEN [parsed EXCEPT !.value = SubSeq(parsed.value, 1, PageSize)]
    ELSE parsed

\* search_keyword, lines 143-144: the products of the response, as they are
SearchResult(body) == ParseField(body, "products")

\* get_link, line 159
LinkResult(body) == ParseField(body, "shortUrl")

\* one __post of an API call followed by the extraction of its result
ApiCall(c, op, url, custom, data, r, parsed) ==
    /\ cookies' = [cookies EXCEPT ![c] = Receive(cookies[c], r)]
    /\ call' = [client |-> c, op |-> op, pc |-> "done",
                reqs |-> <<Request("POST", url, RequestHeaders(user_agent[c], get_headers(user_agent[c], custom)),
                                   data, "None", r)>>,
                errors |-> ErrorsLogged(r),
                result |-> IF Raises(r) THEN Raise(ExceptionOf(r))
                           ELSE IF parsed.ok THEN Return(parsed.value)
                           ELSE Raise(parsed.exc),
                before |-> token[c], grant |-> Grant("none", r), body |-> r.body]
    /\ UNCHANGED <<alive, user_agent, token, handlers, issued, hdrcase>>

\* a mutant: a missing token is rejected locally, nothing is sent
search_keyword_prevalidating(c, keyword, r) ==
    /\ Idle
    /\ alive[c]
    /\ IF token[c] = Null
       THEN /\ call' = [client |-> c, op |-> "search", pc |-> "done", reqs |-> <<>>, errors |-> 0,
                        result |-> Raise("ValueError"), before |-> token[c], grant |-> "none", body |-> NoBody]
            /\ UNCHANGED <<alive, user_agent, token, cookies, handlers, issued, hdrcase>>
       ELSE ApiCall(c, "search", SEARCH_URL,
                    [n \in {"Content-Type", "X-Token"} |-> IF n = "X-Token" THEN XToken(c) ELSE JsonContentType],
                    SearchData(keyword), r, SearchResult(r.body))

\* search_keyword
search_keyword(c, keyword, r) ==
    /\ Idle
    /\ alive[c]
    /\ ApiCall(c, "search", SEARCH_URL,
               [n \in {"Content-Type", "X-Token"} |-> IF n = "X-Token" THEN XToken(c) ELSE JsonContentType],
               SearchData(keyword), r, SearchResult(r.body))

\* get_link
get_link(c, product, r) ==
    /\ Idle
    /\ alive[c]
    /\ ApiCall(c, "link", BANNER_URL,
               [n \in {"content-type", "X-Token"} |-> IF n = "X-Token" THEN XToken(c) ELSE JsonContentType],
               [product |-> product], r, LinkResult(r.body))

\* the products handed to get_link
ProductArgs == {1}

Next ==
    \/ \E c \in Solo, ua \in UserAgentArgs : Construct(c, ua)
    \/ \E c \in Solo, r \in PageResponses : login_get_page(c, r)
    \/ \E r \in PageResponses : login_submit(r)
    \/ \E r \in PageResponses : login_confirm(r)
    \/ login_read_token
    \/ \E c \in Solo, k \in Keywords, r \in SearchResponses : search_keyword(c, k, r)
    \/ \E c \in Solo, p \in ProductArgs, r \in LinkResponses : get_link(c, p, r)

Spec == Init /\ [][Next]_vars

\* two instances in one process, their operations interleaved call by call
NextPair ==
    \/ \E c \in Clients : Construct(c, Null)
    \/ \E c \in Clients, r \in PairResponses({NoBody}) : login_get_page(c, r)
    \/ \E r \in PairResponses({NoBody}) : login_submit(r)
    \/ \E r \in PairResponses({NoBody}) : login_confirm(r)
    \/ login_read_token
    \/ \E c \in Clients, k \in Keywords, r \in PairResponses(ProductBodies) : search_keyword(c, k, r)
    \/ \E c \in Clients, p \in ProductArgs, r \in PairResponses(LinkBodies) : get_link(c, p, r)

SpecPair == Init /\ [][NextPair]_vars

\* header-merge cases: every custom header set over four names, for a
\* client constructed with each user_agent argument
HeaderNames == {"User-Agent", "accept-language", "Content-Type", "X-Token"}
CustomValues == {"custom", Null}
CustomHeaderSets == UNION {[S -> CustomValues] : S \in SUBSET HeaderNames}

InitHeaders ==
    /\ alive = [c \in Clients |-> FALSE]
    /\ user_agent = [c \in Clients |-> DefaultUserAgent]
    /\ token = [c \in Clients |-> Null]
    /\ cookies = [c \in Clients |-> Null]
    /\ handlers = 0
    /\ issued = [c \in Clients |-> Null]
    /\ call = NoCall
    /\ hdrcase \in {[user_agent |-> UserAgentOf(a), custom |-> h, sent |-> NoHeaders, pc |-> "ready"] :
                        a \in UserAgentArgs \cup {""}, h \in CustomHeaderSets}

NextHeaders ==
    \/ PostWithHeaders
    \/ GetWithoutHeaders

SpecHeaders == InitHeaders /\ [][NextHeaders]_vars

\* ---------------------------------------------------------------- claims

Client == call.client
Succeeded(q) == q.delivered /\ ~(q.status >= 400 /\ q.status <= 599)
IsSuccessStatus(q) == q.delivered /\ q.status >= 200 /\ q.status <= 299
ApiOps == {"search", "link"}
TransportErrors == {"ConnectionError", "HTTPError"}
LoginReturned == call.op = "login" /\ call.pc = "done" /\ call.result.kind = "return"

\* C1: a login() that completes without raising returns true with a non-null
\* token if the server set the AFATK cookie in this call, and returns false
\* with a null token if the server set no AFATK cookie in this call.
C1_LoginReflectsServerAnswer ==
    LoginReturned =>
        /\ call.grant = "set" => (call.result.value = TRUE /\ token[Client] # Null)
        /\ call.grant = "none" => (call.result.value = FALSE /\ token[Client] = Null)

\* C2: once login() returned true having read v, every search_keyword and
\* get_link request up to the next login() carries X-Token = v, whatever
\* the cookie jar holds by then, and these calls leave the token unchanged.
C2_XTokenIsLoginToken ==
    /\ \A c \in Clients : issued[c] # Null => token[c] = issued[c]
    /\ call.op \in ApiOps =>
        /\ token[Client] = call.before
        /\ \A i \in 1..Len(call.reqs) :
            /\ call.reqs[i].headers["X-Token"] = call.before
            /\ issued[Client] # Null => call.reqs[i].headers["X-Token"] = issued[Client]

\* the cookie jar no longer holds the token read by login (and this call's
\* response did not touch it), yet the call carried the login's token
C2_Witness ==
    /\ call.op \in ApiOps
    /\ issued[Client] # Null
    /\ call.grant = "none"
    /\ cookies[Client] # issued[Client]
    /\ call.reqs[1].headers["X-Token"] = issued[Client]

\* C3 as stated: a request whose final response is outside 200-299, or whose
\* transport fails, is the last request of its operation, is logged at error
\* severity and makes the operation raise.
C3_NonSuccessRaises ==
    \A i \in 1..Len(call.reqs) :
        ~IsSuccessStatus(call.reqs[i]) =>
            /\ i = Len(call.reqs)
            /\ call.errors >= 1
            /\ call.pc = "done"
            /\ call.result.kind = "raise"

\* C3 amended: a request whose final response has a status in 400-599, or
\* whose transport fails, is the last request of its operation, is logged at
\* error severity and makes the operation raise that transport error.
C3_ErrorStatusRaises ==
    \A i \in 1..Len(call.reqs) :
        (~call.reqs[i].delivered \/ (call.reqs[i].status >= 400 /\ call.reqs[i].status <= 599)) =>
            /\ i = Len(call.reqs)
            /\ call.errors >= 1
            /\ call.pc = "done"
            /\ call.result.kind = "raise"
            /\ call.result.exc \in TransportErrors

C3_Witness ==
    /\ call.op = "login"
    /\ Len(call.reqs) = 2
    /\ call.reqs[2].delivered /\ call.reqs[2].status = 404
    /\ call.result.kind = "raise"
    /\ call.errors >= 1

\* C4: with a null token search_keyword still sends its request, with no
\* usable X-Token, and an HTTP error status answered by the server is raised
\* to the caller as a transport error instead of a product list.
C4_NoLocalTokenCheck ==
    (call.op = "search" /\ call.before = Null) =>
        /\ Len(call.reqs) = 1
        /\ call.reqs[1].url = SEARCH_URL
        /\ call.reqs[1].headers["X-Token"] = Null
        /\ (call.reqs[1].delivered /\ call.reqs[1].status >= 400 /\ call.reqs[1].status <= 599) =>
                (call.result.kind = "raise" /\ call.result.exc = "HTTPError")

C4_Witness ==
    /\ call.op = "search"
    /\ call.before = Null
    /\ Len(call.reqs) = 1
    /\ call.reqs[1].delivered /\ call.reqs[1].status = 404
    /\ call.result.kind = "raise"

\* the three requests of login(), in order
LoginPlan == <<[method |-> "GET", url |-> LOGIN_URL, follow |-> TRUE],
               [method |-> "POST", url |-> LOGIN_PROCESS_URL, follow |-> TRUE],
               [method |-> "GET", url |-> POSTLOGIN_URL, follow |-> TRUE]>>

C7_AtMostPageSize ==
    (call.op = "search" /\ call.result.kind = "return") => Len(call.result.value) <= PageSize

\* C7 amended: a search_keyword call that returns normally returns the
\* data.products of the response unmodified, so it has at most 36 elements
\* exactly when the server sent at most 36.
C7_ProductsPassThrough ==
    (call.op = "search" /\ call.result.kind = "return") =>
        /\ call.result.value = call.body.products
        /\ (Len(call.result.value) <= PageSize) = (Len(call.body.products) <= PageSize)

C7_Witness ==
    /\ call.op = "search"
    /\ call.result.kind = "return"
    /\ Len(call.result.value) > PageSize

\* the client whose constructor or operation this step belongs to
ActsOn(a) == (~alive[a] /\ alive'[a]) \/ (call' # call /\ call'.client = a)

\* C8: constructing an instance or running an operation on it leaves every
\* other instance's token, cookie jar and headers unchanged, and leaves
\* unchanged how many error records a failed request of the other produces.
C8_InstancesIsolated ==
    [][\A a, b \in Clients :
        (a # b /\ alive[b] /\ ActsOn(a)) =>
            /\ token'[b] = token[b]
            /\ cookies'[b] = cookies[b]
            /\ user_agent'[b] = user_agent[b]
            /\ get_headers(user_agent[b], NoHeaders)' = get_headers(user_agent[b], NoHeaders)
            /\ ErrorsLogged(TransportFailure)' = ErrorsLogged(TransportFailure)]_vars

\* C9: the headers sent contain every custom header with its custom value and
\* every default header the custom set does not name; without custom headers
\* exactly the defaults are sent.
C9_HeaderMerge ==
    hdrcase.pc \in {"sent", "plain"} =>
        /\ DOMAIN hdrcase.sent = (DOMAIN hdrcase.custom) \cup {"User-Agent", "accept-language"}
        /\ \A n \in DOMAIN hdrcase.custom : hdrcase.sent[n] = hdrcase.custom[n]
        /\ ("User-Agent" \notin DOMAIN hdrcase.custom) => hdrcase.sent["User-Agent"] = hdrcase.user_agent
        /\ ("accept-language" \notin DOMAIN hdrcase.custom) => hdrcase.sent["accept-language"] = AcceptLanguage
        /\ (DOMAIN hdrcase.custom = {}) =>
                hdrcase.sent = [n \in {"User-Agent", "accept-language"} |->
                                    IF n = "User-Agent" THEN hdrcase.user_agent ELSE AcceptLanguage]

\* a custom User-Agent overrides the default while accept-language, not
\* named, is still sent
C9_Witness ==
    /\ hdrcase.pc = "sent"
    /\ DOMAIN hdrcase.custom = {"User-Agent", "X-Token"}
    /\ hdrcase.custom["User-Agent"] = "custom"
    /\ hdrcase.sent["User-Agent"] = "custom"
    /\ hdrcase.sent["accept-language"] = AcceptLanguage

\* C10: a login() that raises leaves the token as it was before the call, and
\* the search_keyword or get_link call that follows sends that token.
C10_FailedLoginKeepsToken ==
    /\ []((call.op = "login" /\ call.result.kind = "raise") => token[Client] = call.before)
    /\ [][(/\ call.op = "login" /\ call.result.kind = "raise"
           /\ call'.op \in ApiOps /\ call'.client = call.client) =>
              call'.reqs[1].headers["X-Token"] = call.before]_vars

\* a re-login failed after the server had replaced the cookie: the token of
\* the earlier login is still held
C10_Witness ==
    /\ call.op = "login"
    /\ call.result.kind = "raise"
    /\ call.before # Null
    /\ token[Client] = call.before
    /\ cookies[Client] # call.before

====
